---- MODULE Spec2Model ----
(***************************************************************************)
(* filter_coverage.py: filter_lcov(input_file, output_file).               *)
(*                                                                         *)
(* Text is modelled as a sequence of one-character strings, so that the    *)
(* regular-expression split, strip(), split(), int() and the f-string      *)
(* formatting are computed character by character as Python computes them. *)
(***************************************************************************)
EXTENDS Integers, Sequences, FiniteSets, TLC

VARIABLES
    fs,               \* the file system: file name -> text (DOMAIN fs = the files that exist)
    stdout,           \* what print() has written, one entry per call
    input_file,       \* argument of filter_lcov
    output_file,      \* argument of filter_lcov
    pc,               \* position inside filter_lcov
    content,          \* f.read()
    sections,         \* re.split(...)
    output_sections,
    total_filtered,
    i,                \* index of the for loop over sections (1-based)
    lines,            \* section.split('\n') of the section being filtered
    j,                \* index of the for loop over lines (1-based)
    filtered_lines,
    fnf_adjust,
    fnh_adjust

vars == <<fs, stdout, input_file, output_file, pc, content, sections,
          output_sections, total_filtered, i, lines, j, filtered_lines,
          fnf_adjust, fnh_adjust>>

-----------------------------------------------------------------------------
(* Bounds of the model *)

\* longest input document, in lines
MaxLines == 3

\* longest input document of the several-section runs, in lines
MaxSectionLines == 4

-----------------------------------------------------------------------------
(* Characters and literals of the source *)

NL == "\n"
Whitespace == {" ", NL, "\t"}
Digits == {"0", "1", "2", "3", "4", "5", "6", "7", "8", "9"}

PrefixSF == <<"S", "F", ":">>
PrefixFN == <<"F", "N", ":">>
PrefixFNDA == <<"F", "N", "D", "A", ":">>
PrefixFNA == <<"F", "N", "A", ":">>
PrefixFNF == <<"F", "N", "F", ":">>
PrefixFNH == <<"F", "N", "H", ":">>

Min(S) == CHOOSE x \in S : \A y \in S : x <= y
Max(S) == CHOOSE x \in S : \A y \in S : y <= x

-----------------------------------------------------------------------------
(* Python's string operations *)

\* s.startswith(p)
startswith(s, p) == Len(s) >= Len(p) /\ SubSeq(s, 1, Len(p)) = p

\* s.strip(): leading and trailing whitespace removed
strip(s) ==
    LET I == {k \in 1..Len(s) : s[k] \notin Whitespace}
    IN  IF I = {} THEN <<>> ELSE SubSeq(s, Min(I), Max(I))

\* s.split(sep) for a one-character separator: always at least one part
RECURSIVE split(_, _)
split(s, sep) ==
    LET I == {k \in 1..Len(s) : s[k] = sep}
    IN  IF I = {} THEN <<s>>
        ELSE <<SubSeq(s, 1, Min(I) - 1)>> \o split(SubSeq(s, Min(I) + 1, Len(s)), sep)

\* sep.join(parts)
RECURSIVE join(_, _)
join(parts, sep) ==
    IF parts = <<>> THEN <<>>
    ELSE IF Len(parts) = 1 THEN parts[1]
    ELSE parts[1] \o <<sep>> \o join(Tail(parts), sep)

\* ''.join(parts)
RECURSIVE concat(_)
concat(parts) == IF parts = <<>> THEN <<>> ELSE parts[1] \o concat(Tail(parts))

\* re.split(r'(SF:.*?\n)', content): the text before the first match, then
\* alternately a match and the text up to the next match. A match starts at
\* the leftmost "SF:" (anywhere in a line) that has a newline after it and
\* runs up to and including the first such newline.
RECURSIVE re_split(_)
re_split(s) ==
    LET starts == {p \in 1..(Len(s) - 3) :
                      /\ SubSeq(s, p, p + 2) = PrefixSF
                      /\ \E q \in (p + 3)..Len(s) : s[q] = NL}
    IN  IF starts = {} THEN <<s>>
        ELSE LET p == Min(starts)
                 q == Min({q \in (p + 3)..Len(s) : s[q] = NL})
             IN  <<SubSeq(s, 1, p - 1), SubSeq(s, p, q)>>
                     \o re_split(SubSeq(s, q + 1, Len(s)))

\* re.search(r'D[012]Ev', line) is not None
re_search(line) ==
    \E k \in 1..(Len(line) - 3) :
        /\ line[k] = "D"
        /\ line[k + 1] \in {"0", "1", "2"}
        /\ line[k + 2] = "E"
        /\ line[k + 3] = "v"

\* the text int() reads digits from: whitespace stripped, one sign dropped
int_body(s) ==
    LET t == strip(s)
    IN  IF t # <<>> /\ t[1] \in {"+", "-"} THEN Tail(t) ELSE t

\* int(s) does not raise ValueError: digits, single underscores between them
int_ok(s) ==
    LET u == int_body(s)
    IN  /\ u # <<>>
        /\ \A k \in 1..Len(u) : u[k] \in Digits \cup {"_"}
        /\ u[1] # "_"
        /\ u[Len(u)] # "_"
        /\ \A k \in 1..(Len(u) - 1) : ~(u[k] = "_" /\ u[k + 1] = "_")

DigitVal(c) ==
    CASE c = "0" -> 0 [] c = "1" -> 1 [] c = "2" -> 2 [] c = "3" -> 3
      [] c = "4" -> 4 [] c = "5" -> 5 [] c = "6" -> 6 [] c = "7" -> 7
      [] c = "8" -> 8 [] c = "9" -> 9 [] OTHER -> 0

RECURSIVE digits_val(_, _)
digits_val(u, acc) ==
    IF u = <<>> THEN acc
    ELSE IF u[1] = "_" THEN digits_val(Tail(u), acc)
    ELSE digits_val(Tail(u), 10 * acc + DigitVal(u[1]))

\* int(s), where int_ok(s); the actions evaluate it only there
int(s) ==
    LET t == strip(s)
        v == digits_val(int_body(s), 0)
    IN  IF t # <<>> /\ t[1] = "-" THEN 0 - v ELSE v

DigitChar(d) ==
    CASE d = 0 -> "0" [] d = 1 -> "1" [] d = 2 -> "2" [] d = 3 -> "3"
      [] d = 4 -> "4" [] d = 5 -> "5" [] d = 6 -> "6" [] d = 7 -> "7"
      [] d = 8 -> "8" [] d = 9 -> "9"

RECURSIVE nat_str(_)
nat_str(n) ==
    IF n < 10 THEN <<DigitChar(n)>>
    ELSE nat_str(n \div 10) \o <<DigitChar(n % 10)>>

\* the text an f-string writes for an int
str(n) == IF n < 0 THEN <<"-">> \o nat_str(0 - n) ELSE nat_str(n)

-----------------------------------------------------------------------------
(* The tests and computations of filter_lcov *)

\* line 18: section.startswith('SF:')
IsMarker(section) == startswith(section, PrefixSF)

\* line 21: section.strip()
HasContent(section) == strip(section) # <<>>

\* line 30: the prefix test
IsFunctionRecord(line) ==
    startswith(line, PrefixFN) \/ startswith(line, PrefixFNDA) \/ startswith(line, PrefixFNA)

\* line 30: the whole condition
IsDestructorEntry(line) == IsFunctionRecord(line) /\ re_search(line)

\* lines 34-36: int(parts[1]) is evaluated
ParsesHitCount(line) == startswith(line, PrefixFNA) /\ Len(split(line, ",")) >= 2

\* HitIncrement changed: the hit count of an FNDA: line, its first field,
\* is counted as well
HitIncrementAnyRecord(line) ==
    LET parts == split(line, ",")
        first == SubSeq(parts[1], 6, Len(parts[1]))
    IN  IF startswith(line, PrefixFNDA)
        THEN (IF int_ok(first) /\ int(first) > 0 THEN 1 ELSE 0)
        ELSE IF ParsesHitCount(line) /\ int(parts[2]) > 0 THEN 1 ELSE 0

\* lines 34-37: what is added to fnh_adjust for a removed line
HitIncrement(line) ==
    IF ParsesHitCount(line) /\ int(split(line, ",")[2]) > 0 THEN 1 ELSE 0

\* FoundIncrement changed: only FN: lines count as functions found
FoundIncrementFNOnly(line) == IF startswith(line, PrefixFN) THEN 1 ELSE 0

\* line 32: what is added to fnf_adjust for a removed line
FoundIncrement(line) == 1

\* lines 42, 49: line.split(':')[1]
SummaryField(line) == split(line, ":")[2]

\* NewFNF changed: the adjustment is not subtracted
NewFNFUnadjusted(line, adjust) == PrefixFNF \o str(int(SummaryField(line)))

\* lines 42-44
NewFNF(line, adjust) == PrefixFNF \o str(int(SummaryField(line)) - adjust)

\* lines 49-51
NewFNH(line, adjust) == PrefixFNH \o str(int(SummaryField(line)) - adjust)

\* Raises changed: a bad FNH: value is read as 0 instead of raising
RaisesNotFNH(line) ==
    IF IsDestructorEntry(line)
    THEN ParsesHitCount(line) /\ ~int_ok(split(line, ",")[2])
    ELSE startswith(line, PrefixFNF) /\ ~int_ok(SummaryField(line))

\* Raises changed: a bad FNA: hit count is read as 0 instead of raising
RaisesNotFNA(line) ==
    /\ ~IsDestructorEntry(line)
    /\ startswith(line, PrefixFNF) \/ startswith(line, PrefixFNH)
    /\ ~int_ok(SummaryField(line))

\* int() raises ValueError on this line (lines 36, 42, 49)
Raises(line) ==
    IF IsDestructorEntry(line)
    THEN ParsesHitCount(line) /\ ~int_ok(split(line, ",")[2])
    ELSE (startswith(line, PrefixFNF) \/ startswith(line, PrefixFNH))
            /\ ~int_ok(SummaryField(line))

\* InitialAdjust changed: the adjustments are set once, before the loop
InitialAdjustCarried(previous) == previous

\* lines 25-26: the adjustments a section starts with
InitialAdjust(previous) == 0

\* MarkerOut changed: the marker is appended without its newline
MarkerOutStripped(marker) == strip(marker)

\* line 20: what is appended for a marker
MarkerOut(marker) == marker

\* JoinLines changed: every line is written with a newline after it
JoinLinesNewline(filtered) == join(filtered, NL) \o <<NL>>

\* line 56: '\n'.join(filtered_lines)
JoinLines(filtered) == join(filtered, NL)

\* f.write(data) on open(name, 'w')
Written(files, name, data) ==
    [n \in (DOMAIN files) \cup {name} |-> IF n = name THEN data ELSE files[n]]

section == sections[i]
line == lines[j]

-----------------------------------------------------------------------------
(* filter_lcov, one action per step *)

\* lines 8-15
ReadAndSplit ==
    /\ pc = "read"
    /\ input_file \in DOMAIN fs
    /\ content' = fs[input_file]
    /\ sections' = re_split(fs[input_file])
    /\ output_sections' = <<>>
    /\ total_filtered' = 0
    /\ i' = 1
    /\ pc' = "loop"
    /\ UNCHANGED <<fs, stdout, input_file, output_file, lines, j,
                   filtered_lines, fnf_adjust, fnh_adjust>>

\* lines 18-20
PassMarker ==
    /\ pc = "loop"
    /\ i <= Len(sections)
    /\ IsMarker(section)
    /\ output_sections' = Append(output_sections, MarkerOut(section))
    /\ i' = i + 1
    /\ UNCHANGED <<fs, stdout, input_file, output_file, pc, content, sections,
                   total_filtered, lines, j, filtered_lines, fnf_adjust,
                   fnh_adjust>>

\* line 21, condition false: nothing is appended
SkipSection ==
    /\ pc = "loop"
    /\ i <= Len(sections)
    /\ ~IsMarker(section)
    /\ ~HasContent(section)
    /\ i' = i + 1
    /\ UNCHANGED <<fs, stdout, input_file, output_file, pc, content, sections,
                   output_sections, total_filtered, lines, j, filtered_lines,
                   fnf_adjust, fnh_adjust>>

\* lines 21-26
EnterSection ==
    /\ pc = "loop"
    /\ i <= Len(sections)
    /\ ~IsMarker(section)
    /\ HasContent(section)
    /\ lines' = split(section, NL)
    /\ filtered_lines' = <<>>
    /\ fnf_adjust' = InitialAdjust(fnf_adjust)
    /\ fnh_adjust' = InitialAdjust(fnh_adjust)
    /\ j' = 1
    /\ pc' = "lines"
    /\ UNCHANGED <<fs, stdout, input_file, output_file, content, sections,
                   output_sections, total_filtered, i>>

\* lines 30-38
DropDestructor ==
    /\ pc = "lines"
    /\ j <= Len(lines)
    /\ IsDestructorEntry(line)
    /\ ~Raises(line)
    /\ total_filtered' = total_filtered + 1
    /\ fnf_adjust' = fnf_adjust + FoundIncrement(line)
    /\ fnh_adjust' = fnh_adjust + HitIncrement(line)
    /\ j' = j + 1
    /\ UNCHANGED <<fs, stdout, input_file, output_file, pc, content, sections,
                   output_sections, i, lines, filtered_lines>>

\* lines 41-45
UpdateFNF ==
    /\ pc = "lines"
    /\ j <= Len(lines)
    /\ ~IsDestructorEntry(line)
    /\ startswith(line, PrefixFNF)
    /\ ~Raises(line)
    /\ filtered_lines' = Append(filtered_lines, NewFNF(line, fnf_adjust))
    /\ j' = j + 1
    /\ UNCHANGED <<fs, stdout, input_file, output_file, pc, content, sections,
                   output_sections, total_filtered, i, lines, fnf_adjust,
                   fnh_adjust>>

\* lines 48-52
UpdateFNH ==
    /\ pc = "lines"
    /\ j <= Len(lines)
    /\ ~IsDestructorEntry(line)
    /\ startswith(line, PrefixFNH)
    /\ ~Raises(line)
    /\ filtered_lines' = Append(filtered_lines, NewFNH(line, fnh_adjust))
    /\ j' = j + 1
    /\ UNCHANGED <<fs, stdout, input_file, output_file, pc, content, sections,
                   output_sections, total_filtered, i, lines, fnf_adjust,
                   fnh_adjust>>

\* line 54
KeepLine ==
    /\ pc = "lines"
    /\ j <= Len(lines)
    /\ ~IsDestructorEntry(line)
    /\ ~startswith(line, PrefixFNF)
    /\ ~startswith(line, PrefixFNH)
    /\ filtered_lines' = Append(filtered_lines, line)
    /\ j' = j + 1
    /\ UNCHANGED <<fs, stdout, input_file, output_file, pc, content, sections,
                   output_sections, total_filtered, i, lines, fnf_adjust,
                   fnh_adjust>>

\* lines 36, 42, 49: int() raises ValueError, nothing catches it;
\* total_filtered and fnf_adjust were already incremented on line 31-32
RaiseValueError ==
    /\ pc = "lines"
    /\ j <= Len(lines)
    /\ Raises(line)
    /\ total_filtered' = total_filtered + (IF IsDestructorEntry(line) THEN 1 ELSE 0)
    /\ fnf_adjust' = fnf_adjust + (IF IsDestructorEntry(line) THEN 1 ELSE 0)
    /\ pc' = "error"
    /\ UNCHANGED <<fs, stdout, input_file, output_file, content, sections,
                   output_sections, i, lines, j, filtered_lines, fnh_adjust>>

\* line 56
EndSection ==
    /\ pc = "lines"
    /\ j > Len(lines)
    /\ output_sections' = Append(output_sections, JoinLines(filtered_lines))
    /\ i' = i + 1
    /\ pc' = "loop"
    /\ UNCHANGED <<fs, stdout, input_file, output_file, content, sections,
                   total_filtered, lines, j, filtered_lines, fnf_adjust,
                   fnh_adjust>>

\* lines 58-59
WriteOutput ==
    /\ pc = "loop"
    /\ i > Len(sections)
    /\ fs' = Written(fs, output_file, concat(output_sections))
    /\ pc' = "print"
    /\ UNCHANGED <<stdout, input_file, output_file, content, sections,
                   output_sections, total_filtered, i, lines, j,
                   filtered_lines, fnf_adjust, fnh_adjust>>

\* line 61
PrintTotal ==
    /\ pc = "print"
    /\ stdout' = Append(stdout, total_filtered)
    /\ pc' = "done"
    /\ UNCHANGED <<fs, input_file, output_file, content, sections,
                   output_sections, total_filtered, i, lines, j,
                   filtered_lines, fnf_adjust, fnh_adjust>>

\* line 68, a second invocation: filter_lcov run on the file it has written
RunOnOutput ==
    /\ pc = "done"
    /\ output_file = "out"
    /\ input_file' = "out"
    /\ output_file' = "out2"
    /\ pc' = "read"
    /\ UNCHANGED <<fs, stdout, content, sections, output_sections,
                   total_filtered, i, lines, j, filtered_lines, fnf_adjust,
                   fnh_adjust>>

Next ==
    \/ ReadAndSplit
    \/ PassMarker
    \/ SkipSection
    \/ EnterSection
    \/ DropDestructor
    \/ UpdateFNF
    \/ UpdateFNH
    \/ KeepLine
    \/ RaiseValueError
    \/ EndSection
    \/ WriteOutput
    \/ PrintTotal
    \/ RunOnOutput

-----------------------------------------------------------------------------
(* Input documents *)

\* the documents of at most `longest` lines over a vocabulary of lines,
\* with and without a newline after the last line
Documents(vocabulary, longest) ==
    {join(ls, NL) \o tail :
        ls \in UNION {[1..n -> vocabulary] : n \in 0..longest},
        tail \in {<<>>, <<NL>>}}

\* what the output file holds before the run, when it exists
PriorOutput == <<"o", "l", "d">>

\* filter_lcov(in, out) is about to run on one of the documents; the output
\* file exists beforehand for the values TRUE of priors
InitOn(documents, priors) ==
    /\ \E doc \in documents, prior \in priors :
          fs = IF prior
               THEN [n \in {"in", "out"} |-> IF n = "in" THEN doc ELSE PriorOutput]
               ELSE [n \in {"in"} |-> doc]
    /\ stdout = <<>>
    /\ input_file = "in"
    /\ output_file = "out"
    /\ pc = "read"
    /\ content = <<>>
    /\ sections = <<>>
    /\ output_sections = <<>>
    /\ total_filtered = 0
    /\ i = 1
    /\ lines = <<>>
    /\ j = 1
    /\ filtered_lines = <<>>
    /\ fnf_adjust = 0
    /\ fnh_adjust = 0

l_SFa == <<"S", "F", ":", "a">>
l_SFb == <<"S", "F", ":", "b">>
l_FN_dtor == <<"F", "N", ":", "1", ",", "D", "1", "E", "v">>
l_FN_real == <<"F", "N", ":", "2", ",", "f">>
l_FNDA_dtor == <<"F", "N", "D", "A", ":", "3", ",", "D", "0", "E", "v">>
l_FNA_dtor_hit == <<"F", "N", "A", ":", "D", "2", "E", "v", ",", "2">>
l_FNA_dtor_bad == <<"F", "N", "A", ":", "D", "2", "E", "v", ",", "x">>
l_FNF1 == <<"F", "N", "F", ":", "1">>
l_FNF2 == <<"F", "N", "F", ":", "2">>
l_FNH1 == <<"F", "N", "H", ":", "1">>

l_FNF_bad == <<"F", "N", "F", ":", "x">>
l_FNF_colon == <<"F", "N", "F", ":", "2", ":", "x">>
l_FNF_zero == <<"F", "N", "F", ":", "0", "2">>
l_FNH_bad == <<"F", "N", "H", ":", "x">>
l_FNH_space == <<"F", "N", "H", ":", " ", "1">>
l_FNA_real_bad == <<"F", "N", "A", ":", "f", ",", "x">>
l_DA == <<"D", "A", ":", "1">>
l_blank == <<>>
l_space == <<" ">>
l_space_SFb == <<" ", "S", "F", ":", "b">>
l_FN_dtor_SFb == <<"F", "N", ":", "D", "1", "E", "v", "S", "F", ":", "b">>
l_FNF_SFb == <<"F", "N", "F", ":", "2", "S", "F", ":", "b">>

\* documents for the summary counters
CounterVocabulary ==
    {l_SFa, l_FN_dtor_SFb, l_FN_dtor, l_FN_real, l_FNDA_dtor, l_FNA_dtor_hit,
     l_FNA_dtor_bad, l_FNF1, l_FNF2, l_FNH1}

\* documents of several sections
SectionVocabulary ==
    {l_SFa, l_FN_dtor, l_FNA_dtor_hit, l_FNF2, l_FNH1, l_FNA_dtor_bad}

\* documents for the lines kept, dropped and passed through
LineVocabulary ==
    {l_SFa, l_SFb, l_space_SFb, l_FN_dtor, l_FN_real, l_blank, l_DA,
     l_FNF1, l_FNH1, l_FNF_bad}

\* documents with fields that are no integers
ErrorVocabulary ==
    {l_SFa, l_FNF_SFb, l_FN_dtor, l_FNF_bad, l_FNF_colon, l_FNH1, l_FNH_bad,
     l_FNA_dtor_bad, l_FNA_real_bad}

\* documents that a run rewrites without removing a line
RewriteVocabulary ==
    {l_SFa, l_FN_dtor, l_FN_real, l_FNF_zero, l_FNH_space, l_blank, l_space,
     l_DA, l_FNF_bad}

Init == InitOn(Documents(CounterVocabulary, MaxLines), {FALSE})
InitSections == InitOn(Documents(SectionVocabulary, MaxSectionLines), {FALSE})
InitLines == InitOn(Documents(LineVocabulary, MaxLines), {FALSE})
InitErrors == InitOn(Documents(ErrorVocabulary, MaxLines), {FALSE, TRUE})
InitRewrite == InitOn(Documents(RewriteVocabulary, MaxLines), {FALSE})

Spec == Init /\ [][Next]_vars
SpecSections == InitSections /\ [][Next]_vars
SpecLines == InitLines /\ [][Next]_vars
SpecErrors == InitErrors /\ [][Next]_vars
SpecRewrite == InitRewrite /\ [][Next]_vars

-----------------------------------------------------------------------------
(* The documents as the properties read them *)

\* filter_lcov has returned
Finished == pc = "done"

In == fs[input_file]
Out == fs[output_file]

\* the lines of a text: the pieces a newline ends, and the last piece when
\* it is not empty
TextLines(t) ==
    LET parts == split(t, NL)
    IN  IF parts[Len(parts)] = <<>> THEN SubSeq(parts, 1, Len(parts) - 1) ELSE parts

NumLines(t) == Len(TextLines(t))

\* the places of "SF:" in a line
FindSF(l) == {k \in 1..(Len(l) - 2) : SubSeq(l, k, k + 2) = PrefixSF}

\* line r of t holds a marker: "SF:" with a newline after it
HasMarker(t, r) == r < Len(split(t, NL)) /\ FindSF(TextLines(t)[r]) # {}

\* the record of line r: the line, less the marker it holds
RecordAt(t, r) ==
    LET l == TextLines(t)[r]
    IN  IF HasMarker(t, r) THEN SubSeq(l, 1, Min(FindSF(l)) - 1) ELSE l

\* the marker of line r
MarkerAt(t, r) ==
    LET l == TextLines(t)[r] IN SubSeq(l, Min(FindSF(l)), Len(l))

\* lines q <= p stand in one section: no marker from q up to p
SameSection(t, q, p) == \A r \in q..(p - 1) : ~HasMarker(t, r)

\* the k-th smallest member of a set of numbers
Nth(S, k) == CHOOSE x \in S : Cardinality({y \in S : y < x}) = k - 1

FNFAt(t) == {p \in 1..NumLines(t) : startswith(RecordAt(t, p), PrefixFNF)}
FNHAt(t) == {p \in 1..NumLines(t) : startswith(RecordAt(t, p), PrefixFNH)}

\* the destructor records removed ahead of line p in its section
RemovedBefore(t, p) ==
    {q \in 1..(p - 1) : SameSection(t, q, p) /\ IsDestructorEntry(RecordAt(t, q))}

\* a section in the plain reading: the lines between two lines that start
\* with SF:
IsSFLine(l) == startswith(l, PrefixSF)
PlainSection(t, p) ==
    {q \in 1..NumLines(t) :
        \A r \in (IF q < p THEN q ELSE p)..(IF q < p THEN p ELSE q) :
            ~IsSFLine(TextLines(t)[r])}

\* what follows the four-character prefix of a summary line
Remainder(l) == SubSeq(l, 5, Len(l))

\* lines q and p stand in one section, whichever comes first
Section(t, p) ==
    {q \in 1..NumLines(t) : IF q < p THEN SameSection(t, q, p) ELSE SameSection(t, p, q)}

\* the hit count the formats give a function record: the first field of an
\* FNDA: line, the second field of an FNA: line
HitField(l) ==
    LET parts == split(l, ",")
    IN  IF startswith(l, PrefixFNDA) THEN SubSeq(parts[1], 6, Len(parts[1]))
        ELSE IF startswith(l, PrefixFNA) /\ Len(parts) >= 2 THEN parts[2]
        ELSE <<>>
WasHit(l) == int_ok(HitField(l)) /\ int(HitField(l)) > 0

\* an FNA: record whose second field is a positive integer
FNAHit(l) ==
    /\ startswith(l, PrefixFNA)
    /\ Len(split(l, ",")) >= 2
    /\ int_ok(split(l, ",")[2])
    /\ int(split(l, ",")[2]) > 0

-----------------------------------------------------------------------------
(* C1 *)

\* C1 as claimed: the FNF value written is the input value less the number
\* of FN:/FNDA:/FNA: destructor lines of the whole section, wherever the
\* FNF: line stands among them.
C1_FNF_WholeSection ==
    Finished =>
        LET P == FNFAt(In)
            Q == FNFAt(Out)
        IN  \A k \in 1..Cardinality(P) :
                LET p == Nth(P, k)
                    l == TextLines(In)[p]
                    removed == {q \in PlainSection(In, p) :
                                   IsDestructorEntry(TextLines(In)[q])}
                IN  int_ok(Remainder(l)) =>
                        /\ k <= Cardinality(Q)
                        /\ TextLines(Out)[Nth(Q, k)] =
                              PrefixFNF \o str(int(Remainder(l)) - Cardinality(removed))

\* C1 amended: the FNF value written is the input value less the number of
\* FN:/FNDA:/FNA: destructor lines that stand before the FNF: line in its
\* section; lines removed after it are not subtracted.
C1_FNF_RemovedBefore ==
    Finished =>
        LET P == FNFAt(In)
            Q == FNFAt(Out)
        IN  /\ Cardinality(Q) = Cardinality(P)
            /\ \A k \in 1..Cardinality(P) :
                  LET p == Nth(P, k)
                  IN  RecordAt(Out, Nth(Q, k)) =
                          PrefixFNF \o str(int(SummaryField(RecordAt(In, p)))
                                             - Cardinality(RemovedBefore(In, p)))

\* a finished run on a section with destructor lines before and after FNF:
C1_Witness ==
    /\ Finished
    /\ input_file = "in"
    /\ \E p \in FNFAt(In) :
          /\ RemovedBefore(In, p) # {}
          /\ \E q \in Section(In, p) : q > p /\ IsDestructorEntry(RecordAt(In, q))

-----------------------------------------------------------------------------
(* C2 *)

\* C2 as claimed: the FNH value written is the input value less the number
\* of removed records of the section with a positive hit count, the count
\* being the first field of an FNDA: line and the second of an FNA: line
\* (stated for the sections whose function records all precede FNH:).
C2_FNH_AllHitRecords ==
    Finished =>
        LET P == FNHAt(In)
            Q == FNHAt(Out)
        IN  \A k \in 1..Cardinality(P) :
                LET p == Nth(P, k)
                    l == TextLines(In)[p]
                    hit == {q \in PlainSection(In, p) :
                               /\ IsDestructorEntry(TextLines(In)[q])
                               /\ WasHit(TextLines(In)[q])}
                    ordered == \A q \in PlainSection(In, p) :
                                  IsFunctionRecord(TextLines(In)[q]) => q < p
                IN  int_ok(Remainder(l)) /\ ordered =>
                        /\ k <= Cardinality(Q)
                        /\ TextLines(Out)[Nth(Q, k)] =
                              PrefixFNH \o str(int(Remainder(l)) - Cardinality(hit))

\* C2 amended: the FNH value written is the input value less the number of
\* removed FNA: lines before the FNH: line in its section whose second field
\* is a positive integer; removed FNDA: lines are never subtracted.
C2_FNH_RemovedFNABefore ==
    Finished =>
        LET P == FNHAt(In)
            Q == FNHAt(Out)
        IN  /\ Cardinality(Q) = Cardinality(P)
            /\ \A k \in 1..Cardinality(P) :
                  LET p == Nth(P, k)
                      hit == {q \in RemovedBefore(In, p) : FNAHit(RecordAt(In, q))}
                  IN  RecordAt(Out, Nth(Q, k)) =
                          PrefixFNH \o str(int(SummaryField(RecordAt(In, p)))
                                             - Cardinality(hit))

\* a finished run that removed a hit FNDA: line and a hit FNA: line before FNH:
C2_Witness ==
    /\ Finished
    /\ input_file = "in"
    /\ \E p \in FNHAt(In) :
          /\ \E q \in RemovedBefore(In, p) : FNAHit(RecordAt(In, q))
          /\ \E q \in RemovedBefore(In, p) :
                startswith(RecordAt(In, q), PrefixFNDA) /\ WasHit(RecordAt(In, q))

-----------------------------------------------------------------------------
(* C3 *)

FNLinesIn(t, S) == {r \in S : startswith(RecordAt(t, r), PrefixFN)}

\* the section of FNF: line p is consistent: p is its only FNF: line, its
\* FN: lines all precede p, and the FNF value is their number
ConsistentSection(t, p) ==
    /\ FNFAt(t) \cap Section(t, p) = {p}
    /\ \A r \in FNLinesIn(t, Section(t, p)) : r < p
    /\ int_ok(SummaryField(RecordAt(t, p)))
    /\ int(SummaryField(RecordAt(t, p))) = Cardinality(FNLinesIn(t, Section(t, p)))

\* C3 as claimed: in a consistent section the FNF value written is the
\* number of FN: lines left in that section of the output.
C3_FNF_CountsRemainingFN ==
    Finished =>
        LET P == FNFAt(In)
            Q == FNFAt(Out)
        IN  \A k \in 1..Cardinality(P) :
                ConsistentSection(In, Nth(P, k)) =>
                    /\ k <= Cardinality(Q)
                    /\ RecordAt(Out, Nth(Q, k)) =
                          PrefixFNF \o str(Cardinality(
                              FNLinesIn(Out, Section(Out, Nth(Q, k)))))

\* C3 amended: in a consistent section the FNF value written is the number
\* of FN: lines left in that section of the output, less the number of
\* FNDA:/FNA: destructor lines removed before the FNF: line.
C3_FNF_RemainingLessHitRecords ==
    Finished =>
        LET P == FNFAt(In)
            Q == FNFAt(Out)
        IN  \A k \in 1..Cardinality(P) :
                LET p == Nth(P, k)
                    extra == {r \in RemovedBefore(In, p) :
                                 ~startswith(RecordAt(In, r), PrefixFN)}
                IN  ConsistentSection(In, p) =>
                        /\ k <= Cardinality(Q)
                        /\ RecordAt(Out, Nth(Q, k)) =
                              PrefixFNF \o str(Cardinality(
                                  FNLinesIn(Out, Section(Out, Nth(Q, k))))
                                  - Cardinality(extra))

\* a finished run on a consistent section that lost an FN: line and an
\* FNDA: or FNA: line of a destructor
C3_Witness ==
    /\ Finished
    /\ input_file = "in"
    /\ \E p \in FNFAt(In) :
          /\ ConsistentSection(In, p)
          /\ \E r \in RemovedBefore(In, p) : startswith(RecordAt(In, r), PrefixFN)
          /\ \E r \in RemovedBefore(In, p) : ~startswith(RecordAt(In, r), PrefixFN)

-----------------------------------------------------------------------------
(* C7 *)

\* C7: while a section is filtered, fnf_adjust and fnh_adjust count only the
\* lines removed so far in that section (both are 0 when it is entered), and
\* the total printed is the number of lines removed over all sections.
C7_AdjustPerSectionAndTotal ==
    /\ pc = "lines" =>
          /\ fnf_adjust =
                Cardinality({q \in 1..(j - 1) : IsDestructorEntry(lines[q])})
          /\ fnh_adjust =
                Cardinality({q \in 1..(j - 1) :
                                IsDestructorEntry(lines[q]) /\ FNAHit(lines[q])})
    /\ Finished =>
          stdout[Len(stdout)] =
              Cardinality({r \in 1..NumLines(In) : IsDestructorEntry(RecordAt(In, r))})

\* a later section with destructor lines and FNF: is entered after an
\* earlier section lost lines
C7_Witness ==
    /\ pc = "lines"
    /\ input_file = "in"
    /\ i > 2
    /\ j = 1
    /\ total_filtered > 0
    /\ \E q \in 1..Len(lines) : startswith(lines[q], PrefixFNF)
    /\ \E q \in 1..Len(lines) : IsDestructorEntry(lines[q])

-----------------------------------------------------------------------------
(* Lines, as C4, C5, C6, C9 and C10 name them *)

\* a contains the members of a in their order among the members of b
RECURSIVE IsSubseq(_, _)
IsSubseq(a, b) ==
    IF a = <<>> THEN TRUE
    ELSE IF b = <<>> THEN FALSE
    ELSE IF a[1] = b[1] THEN IsSubseq(Tail(a), Tail(b))
    ELSE IsSubseq(a, Tail(b))

\* the line contains D0Ev, D1Ev or D2Ev
HasDestructorMarker(l) ==
    \E k \in 1..(Len(l) - 3) :
        SubSeq(l, k, k + 3) \in {<<"D", "0", "E", "v">>, <<"D", "1", "E", "v">>,
                                 <<"D", "2", "E", "v">>}

HasFunctionPrefix(l) ==
    startswith(l, PrefixFN) \/ startswith(l, PrefixFNDA) \/ startswith(l, PrefixFNA)

\* the lines C4 says are removed
DestructorLine(l) == HasFunctionPrefix(l) /\ HasDestructorMarker(l)

IsSummary(l) == startswith(l, PrefixFNF) \/ startswith(l, PrefixFNH)

\* the lines C5 says pass through
OtherLine(l) == ~HasFunctionPrefix(l) /\ ~IsSummary(l)

NotDestructorLine(l) == ~DestructorLine(l)

\* the records of a text that satisfy a test, in order
RecordsWhere(t, Test(_)) ==
    LET R == {r \in 1..NumLines(t) : Test(RecordAt(t, r))}
    IN  [m \in 1..Cardinality(R) |-> RecordAt(t, Nth(R, m))]

-----------------------------------------------------------------------------
(* C4 *)

\* C4: a line is absent from the output if and only if it starts with FN:,
\* FNDA: or FNA: and contains D0Ev, D1Ev or D2Ev: the output has one line
\* for each other input line, in order, and the function records among them
\* are unchanged.
C4_AbsentIffDestructorLine ==
    Finished =>
        LET kept == SelectSeq(TextLines(In), NotDestructorLine)
            M == TextLines(Out)
        IN  /\ Len(M) = Len(kept)
            /\ \A k \in 1..Len(kept) : HasFunctionPrefix(kept[k]) => M[k] = kept[k]

-----------------------------------------------------------------------------
(* C5 *)

\* C5: the lines that start with none of FN:, FNDA:, FNA:, FNF:, FNH:,
\* blank and whitespace-only lines included, are the same in the output as
\* in the input, in the same order.
C5_OtherLinesPassThrough ==
    Finished => SelectSeq(TextLines(Out), OtherLine) = SelectSeq(TextLines(In), OtherLine)

-----------------------------------------------------------------------------
(* C6 *)

MarkerLines(t) == {r \in 1..NumLines(t) : HasMarker(t, r)}

\* the markers of a text, in order
Markers(t) ==
    [k \in 1..Cardinality(MarkerLines(t)) |-> MarkerAt(t, Nth(MarkerLines(t), k))]

\* the lines of a text that start with SF:, in order
SFLines(t) == SelectSeq(TextLines(t), IsSFLine)

\* the records kept as they are that stand after k markers
RecordsAfter(t, k) ==
    LET R == {r \in 1..NumLines(t) :
                 /\ Cardinality({q \in MarkerLines(t) : q < r}) = k
                 /\ RecordAt(t, r) # <<>>
                 /\ ~IsSummary(RecordAt(t, r))}
    IN  [m \in 1..Cardinality(R) |-> RecordAt(t, Nth(R, m))]

\* C6: the markers of the output are the markers of the input, verbatim and
\* in the same order; every input line that starts with SF: is an output
\* line, in the same order; and the records the output holds after k
\* markers are records the input holds after k markers, in the same order.
C6_MarkersPreserved ==
    Finished =>
        /\ Markers(Out) = Markers(In)
        /\ IsSubseq(SFLines(In), SFLines(Out))
        /\ \A k \in 0..Len(Markers(In)) :
              IsSubseq(RecordsAfter(Out, k), RecordsAfter(In, k))

\* a finished run on two different SF: lines with a kept function record
\* between them
C6_Witness ==
    /\ Finished
    /\ input_file = "in"
    /\ Len(SFLines(In)) >= 2
    /\ SFLines(In)[1] # SFLines(In)[2]
    /\ \E k \in 1..Len(RecordsAfter(Out, 1)) : HasFunctionPrefix(RecordsAfter(Out, 1)[k])

-----------------------------------------------------------------------------
(* C8 *)

\* the run has written nothing: no output file of its own making, no print
NothingWritten ==
    /\ "out2" \notin DOMAIN fs
    /\ "out" \in DOMAIN fs => fs["out"] = PriorOutput
    /\ stdout = <<>>

Completed == pc \in {"print", "done"}

\* C8 as claimed: when a line FNF: or FNH: is followed by anything but an
\* integer, the run does not complete, writes no output file and prints
\* nothing; that is, a run that has completed or written anything read a
\* document without such a line.
C8_BadRemainderAborts ==
    input_file = "in" /\ (Completed \/ ~NothingWritten) =>
        \A r \in 1..NumLines(In) :
            IsSummary(TextLines(In)[r]) => int_ok(Remainder(TextLines(In)[r]))

\* the field of a summary record the code reads is no integer
BadSummary(l) == IsSummary(l) /\ ~int_ok(split(l, ":")[2])

\* C8 amended: when, in a record FNF: or FNH: of a section, the text
\* between the first colon and the next colon (or the end of the record) is
\* no integer, the run does not complete, writes no output file and prints
\* nothing; that is, a run that has completed or written anything read a
\* document without such a record.
C8_BadFieldAborts ==
    input_file = "in" /\ (Completed \/ ~NothingWritten) =>
        \A r \in 1..NumLines(In) : ~BadSummary(RecordAt(In, r))

\* the run fails on a bad summary line of a later section, after earlier
\* sections were filtered, with an output file in place
C8_Witness ==
    /\ pc = "error"
    /\ BadSummary(line)
    /\ \E k \in 1..(i - 1) : ~IsMarker(sections[k]) /\ HasContent(sections[k])
    /\ Len(output_sections) >= 2
    /\ total_filtered > 0
    /\ "out" \in DOMAIN fs

-----------------------------------------------------------------------------
(* C9 *)

\* an FNA: line with a second field that is no integer
BadFNA(l) ==
    /\ startswith(l, PrefixFNA)
    /\ Len(split(l, ",")) >= 2
    /\ ~int_ok(split(l, ",")[2])

FNAWithoutMarker(l) == startswith(l, PrefixFNA) /\ ~HasDestructorMarker(l)

\* C9 as claimed: an FNA: line whose second field is no integer, with or
\* without a destructor marker, keeps the run from completing.
C9_AnyBadFNAAborts ==
    input_file = "in" /\ Completed =>
        \A r \in 1..NumLines(In) : ~BadFNA(TextLines(In)[r])

\* C9 amended: an FNA: line with a destructor marker whose second field is
\* no integer keeps the run from completing; the FNA: lines without a
\* marker are passed through as they are, whatever their second field.
C9_BadDestructorFNAAborts ==
    /\ input_file = "in" /\ Completed =>
          \A r \in 1..NumLines(In) :
              ~(BadFNA(RecordAt(In, r)) /\ HasDestructorMarker(RecordAt(In, r)))
    /\ Finished =>
          RecordsWhere(Out, FNAWithoutMarker) = RecordsWhere(In, FNAWithoutMarker)

\* the run fails on an FNA: destructor line after it has passed an FNA:
\* line without a marker whose second field is no integer
C9_Witness ==
    /\ pc = "error"
    /\ BadFNA(line)
    /\ HasDestructorMarker(line)
    /\ \E k \in 1..Len(filtered_lines) :
          BadFNA(filtered_lines[k]) /\ ~HasDestructorMarker(filtered_lines[k])

-----------------------------------------------------------------------------
(* C10 *)

NoDestructorLine(t) == \A r \in 1..NumLines(t) : ~DestructorLine(TextLines(t)[r])

\* the second run has returned
RanTwice == pc = "done" /\ output_file = "out2"

\* C10: when the input has no line the filter removes, the run on the output
\* of the first run writes that output again and reports 0 removed entries.
C10_SecondRunSameOutput ==
    RanTwice /\ NoDestructorLine(fs["in"]) =>
        /\ fs["out2"] = fs["out"]
        /\ stdout[2] = 0

\* two runs on a document without destructor lines that the first run
\* rewrote
C10_Witness ==
    /\ RanTwice
    /\ NoDestructorLine(fs["in"])
    /\ fs["out"] # fs["in"]
    /\ FNFAt(fs["in"]) # {}

====
